---- MODULE Spec2Model ----
(***************************************************************************)
(* lpcomp-demo (examples/lpcomp-demo/src/main.rs): an RTIC application for *)
(* the nRF52840.  init configures the low-power comparator (LPCOMP) and a   *)
(* GPIOTE channel for button 1, idle parks the core in wfi, and two         *)
(* hardware tasks of equal priority run on the COMP_LPCOMP and GPIOTE       *)
(* interrupts: on_comp mirrors the comparator result on LED 1, on_gpiote    *)
(* writes POWER.SYSTEMOFF.  The comparator's analog-detect wakes the        *)
(* device from System OFF and latches the LPCOMP bit of POWER.RESETREAS.    *)
(*                                                                         *)
(* The model has one variable per register or pin the program touches, one *)
(* program counter per execution context (init/idle, on_comp, on_gpiote),  *)
(* one action per statement of main.rs, and the actions of the            *)
(* environment: the comparator input crossing the reference (powered, in   *)
(* System OFF, and as the wake-up), and the button pin falling and rising. *)
(***************************************************************************)
EXTENDS Naturals, Sequences, FiniteSets

VARIABLES
    sys,        \* "Booting" | "Awake" | "PoweredOff"
    pcMain,     \* position of init / idle
    pcComp,     \* position of on_comp; "inactive" when the handler is not running
    pcGpiote,   \* position of on_gpiote; "inactive" when the handler is not running
    primask,    \* TRUE while interrupts are globally disabled (during init)
    wokeRead,   \* value of the condition of line 59, once evaluated in this boot
    issued,     \* PowerRequest.issued: SYSTEMOFF was written in this session
    input,      \* comparator input relative to the reference: "Above" | "Below"
    btn,        \* level of the button pin P0.11: "High" | "Low"
    led,        \* level of the LED pin P0.13: "Unconfigured" | "High" | "Low"
    lpcomp,     \* the LPCOMP registers
    gpiote,     \* the GPIOTE channel 0 registers
    resetreas,  \* POWER.RESETREAS: the set of latched reset-reason bits
    rtt,        \* the diagnostic lines printed in this boot
    compLog,    \* the operations done by the current / last run of on_comp
    gpioteLog,  \* the operations done by the current / last run of on_gpiote
    evts,       \* crossing events raised by the comparator in this session
    ledWrites,  \* indicator writes done by on_comp in this session
    spaced,     \* no crossing has yet arrived while another was unhandled
    fallsAwake, \* falling button edges seen while Awake in this session
    compWakes,  \* comparator-induced wakes so far (latched ones at power-up included)
    trueReads,  \* boot checks of the wake-reason latch that read "detected"
    nCross,     \* input crossings so far
    nEdges,     \* falling button edges so far
    nWakes      \* wakes from System OFF so far

cpu  == <<sys, pcMain, pcComp, pcGpiote, primask, wokeRead, issued>>
hw   == <<input, btn, led, lpcomp, gpiote, resetreas>>
hist == <<rtt, compLog, gpioteLog, evts, ledWrites, spaced, fallsAwake, compWakes, trueReads>>
bnd  == <<nCross, nEdges, nWakes>>
vars == <<cpu, hw, hist, bnd>>

\* Bounds of the environment.
MaxCross == 3
MaxEdges == 2
MaxWakes == 1

\* The bits of POWER.RESETREAS that are told apart.
ResetBits == {"resetpin", "sreq", "lpcomp"}

\* LPCOMP and GPIOTE channel 0 after a reset.
LpcompReset ==
    [enable |-> FALSE, refsel |-> "Ref4_8Vdd", extrefsel |-> "AnalogReference0",
     hyst |-> FALSE, anadetect |-> "Cross", inten |-> {}, events |-> {},
     result |-> "Below", psel |-> "AnalogInput0"]

GpioteReset ==
    [mode |-> "Disabled", psel |-> "none", polarity |-> "None",
     inten |-> FALSE, event |-> FALSE]

\* Task priorities: hardware tasks without a priority argument get 1, idle runs at 0.
PrioIdle == 0
PrioComp == 1
PrioGpioteRaised == PrioComp + 1
PrioGpiote == 1

Max(a, b) == IF a >= b THEN a ELSE b

\* The priority the core is executing at.
CurrentPrio ==
    Max(IF pcComp # "inactive" THEN PrioComp ELSE PrioIdle,
        IF pcGpiote # "inactive" THEN PrioGpiote ELSE PrioIdle)

\* The interrupt lines: an event of the peripheral whose interrupt is enabled.
CompPending == lpcomp.inten \cap lpcomp.events # {}
GpiotePending == gpiote.inten /\ gpiote.event

\* An interrupt the core would take now.
CompDispatchable ==
    /\ sys # "PoweredOff" /\ ~primask
    /\ CompPending /\ pcComp = "inactive" /\ PrioComp > CurrentPrio
GpioteDispatchable ==
    /\ sys # "PoweredOff" /\ ~primask
    /\ GpiotePending /\ pcGpiote = "inactive" /\ PrioGpiote > CurrentPrio

\* init / idle execute only while no handler is active and none is to be taken.
MainRuns ==
    /\ sys # "PoweredOff"
    /\ pcComp = "inactive" /\ pcGpiote = "inactive"
    /\ ~CompDispatchable /\ ~GpioteDispatchable

\* A handler executes while no handler of higher priority is active.
CompRuns == pcComp # "inactive" /\ (pcGpiote = "inactive" \/ PrioComp >= PrioGpiote)
GpioteRuns == pcGpiote # "inactive" /\ (pcComp = "inactive" \/ PrioGpiote > PrioComp)

\* #[init] runs with interrupts disabled.
PrimaskAtResetClear == FALSE
PrimaskAtReset == TRUE

Init ==
    /\ sys = "Booting" /\ pcMain = "clocks"
    /\ pcComp = "inactive" /\ pcGpiote = "inactive"
    /\ primask = PrimaskAtReset /\ wokeRead = FALSE /\ issued = FALSE
    /\ input \in {"Above", "Below"} /\ btn = "High" /\ led = "Unconfigured"
    /\ lpcomp = LpcompReset /\ gpiote = GpioteReset
    /\ resetreas \in SUBSET ResetBits
    /\ rtt = <<>> /\ compLog = <<>> /\ gpioteLog = <<>>
    /\ evts = 0 /\ ledWrites = 0 /\ spaced = TRUE /\ fallsAwake = 0
    /\ compWakes = (IF "lpcomp" \in resetreas THEN 1 ELSE 0) /\ trueReads = 0
    /\ nCross = 0 /\ nEdges = 0 /\ nWakes = 0

\* One statement of init: from `from` to `to`, changing nothing else of the cpu.
InitGoto(from, to) ==
    /\ MainRuns /\ sys = "Booting" /\ pcMain = from
    /\ pcMain' = to
    /\ UNCHANGED <<sys, pcComp, pcGpiote, primask, issued>>

\* line 31: Clocks::new(..).enable_ext_hfosc()
init_clocks ==
    /\ InitGoto("clocks", "rtt_init")
    /\ UNCHANGED <<wokeRead, hw, hist, bnd>>

\* line 32: rtt_init_print!()
init_rtt ==
    /\ InitGoto("rtt_init", "gpio")
    /\ UNCHANGED <<wokeRead, hw, hist, bnd>>

init_gpio_low ==
    /\ InitGoto("gpio", "lpcomp_new")
    /\ led' = "Low"
    /\ UNCHANGED <<wokeRead, input, btn, lpcomp, gpiote, resetreas, hist, bnd>>

\* lines 34-38: the pins; LED 1 becomes a push-pull output driven high
init_gpio ==
    /\ InitGoto("gpio", "lpcomp_new")
    /\ led' = "High"
    /\ UNCHANGED <<wokeRead, input, btn, lpcomp, gpiote, resetreas, hist, bnd>>

\* line 40: LpComp::new(LPCOMP, &in_pin), in_pin = P0.04 = AIN2
init_lpcomp_new ==
    /\ InitGoto("lpcomp_new", "vref")
    /\ lpcomp' = [lpcomp EXCEPT !.psel = "AnalogInput2"]
    /\ UNCHANGED <<wokeRead, input, btn, led, gpiote, resetreas, hist, bnd>>

\* The builder calls of lines 42-46 on the LPCOMP registers l.
Vref(l, v) == [l EXCEPT !.refsel = v]
ArefPin(l, p) == [l EXCEPT !.extrefsel = p]
Hysteresis(l, b) == [l EXCEPT !.hyst = b]
SetAnalogDetect(l, t) == [l EXCEPT !.anadetect = t]
EnableInterrupt(l, t) == [l EXCEPT !.inten = @ \cup {t}]

\* A reference pin has been chosen: EXTREFSEL no longer holds its reset value.
RefPinSet(l) == l.extrefsel # LpcompReset.extrefsel

\* The configurations that are rejected: the external reference without a reference
\* pin, and the Cross interrupt without hysteresis.
ConfigError(l) ==
    \/ l.refsel = "ARef" /\ ~RefPinSet(l)
    \/ "cross" \in l.inten /\ ~l.hyst

\* line 42: .vref(VRef::ARef)
init_vref ==
    /\ InitGoto("vref", "aref_pin")
    /\ lpcomp' = Vref(lpcomp, "ARef")
    /\ UNCHANGED <<wokeRead, input, btn, led, gpiote, resetreas, hist, bnd>>

init_aref_pin_skipped ==
    /\ InitGoto("aref_pin", "hysteresis")
    /\ UNCHANGED <<wokeRead, input, btn, led, lpcomp, gpiote, resetreas, hist, bnd>>

\* line 43: .aref_pin(&ref_pin), ref_pin = P0.03 = AIN1
init_aref_pin ==
    /\ InitGoto("aref_pin", "hysteresis")
    /\ lpcomp' = ArefPin(lpcomp, "AnalogReference1")
    /\ UNCHANGED <<wokeRead, input, btn, led, gpiote, resetreas, hist, bnd>>

init_hysteresis_off ==
    /\ InitGoto("hysteresis", "analog_detect")
    /\ lpcomp' = Hysteresis(lpcomp, FALSE)
    /\ UNCHANGED <<wokeRead, input, btn, led, gpiote, resetreas, hist, bnd>>

\* line 44: .hysteresis(true)
init_hysteresis ==
    /\ InitGoto("hysteresis", "analog_detect")
    /\ lpcomp' = Hysteresis(lpcomp, TRUE)
    /\ UNCHANGED <<wokeRead, input, btn, led, gpiote, resetreas, hist, bnd>>

init_analog_detect_cross ==
    /\ InitGoto("analog_detect", "enable_interrupt")
    /\ lpcomp' = SetAnalogDetect(lpcomp, "Cross")
    /\ UNCHANGED <<wokeRead, input, btn, led, gpiote, resetreas, hist, bnd>>

\* line 45: .analog_detect(Transition::Up)
init_analog_detect ==
    /\ InitGoto("analog_detect", "enable_interrupt")
    /\ lpcomp' = SetAnalogDetect(lpcomp, "Up")
    /\ UNCHANGED <<wokeRead, input, btn, led, gpiote, resetreas, hist, bnd>>

\* line 46: .enable_interrupt(Transition::Cross), the last call that configures the
\* comparator: a rejected configuration is a panic
init_enable_interrupt ==
    /\ InitGoto("enable_interrupt",
                IF ConfigError(EnableInterrupt(lpcomp, "cross"))
                THEN "panic_disable" ELSE "enable")
    /\ lpcomp' = EnableInterrupt(lpcomp, "cross")
    /\ UNCHANGED <<wokeRead, input, btn, led, gpiote, resetreas, hist, bnd>>

\* line 47: .enable()
init_enable ==
    /\ InitGoto("enable", "gpiote_channel")
    /\ lpcomp' = [lpcomp EXCEPT !.enable = TRUE]
    /\ UNCHANGED <<wokeRead, input, btn, led, gpiote, resetreas, hist, bnd>>

\* lines 49-53: Gpiote::new(..).channel0().input_pin(&btn1).hi_to_lo()
init_gpiote_channel_lo_to_hi ==
    /\ InitGoto("gpiote_channel", "gpiote_enable_interrupt")
    /\ gpiote' = [gpiote EXCEPT !.mode = "Event", !.psel = "P0_11", !.polarity = "LoToHi"]
    /\ UNCHANGED <<wokeRead, input, btn, led, lpcomp, resetreas, hist, bnd>>
init_gpiote_channel ==
    /\ InitGoto("gpiote_channel", "gpiote_enable_interrupt")
    /\ gpiote' = [gpiote EXCEPT !.mode = "Event", !.psel = "P0_11", !.polarity = "HiToLo"]
    /\ UNCHANGED <<wokeRead, input, btn, led, lpcomp, resetreas, hist, bnd>>

\* line 54: .enable_interrupt()
init_gpiote_enable_interrupt ==
    /\ InitGoto("gpiote_enable_interrupt", "print_on")
    /\ gpiote' = [gpiote EXCEPT !.inten = TRUE]
    /\ UNCHANGED <<wokeRead, input, btn, led, lpcomp, resetreas, hist, bnd>>

\* line 56: rprintln!("Power ON")
init_print_on ==
    /\ InitGoto("print_on", "check_resetreas")
    /\ rtt' = Append(rtt, "Power ON")
    /\ UNCHANGED <<wokeRead, hw, compLog, gpioteLog, evts, ledWrites, spaced,
                   fallsAwake, compWakes, trueReads, bnd>>

\* POWER.RESETREAS.read().lpcomp().is_detected()
IsDetected(reg) == "lpcomp" \in reg

init_check_resetreas_always ==
    /\ InitGoto("check_resetreas", "clear_resetreas")
    /\ wokeRead' = IsDetected(resetreas)
    /\ trueReads' = trueReads + (IF IsDetected(resetreas) THEN 1 ELSE 0)
    /\ UNCHANGED <<hw, rtt, compLog, gpioteLog, evts, ledWrites, spaced,
                   fallsAwake, compWakes, bnd>>

\* line 59: if resetreas.read().lpcomp().is_detected()
init_check_resetreas ==
    /\ InitGoto("check_resetreas",
                IF IsDetected(resetreas) THEN "clear_resetreas" ELSE "print_press")
    /\ wokeRead' = IsDetected(resetreas)
    /\ trueReads' = trueReads + (IF IsDetected(resetreas) THEN 1 ELSE 0)
    /\ UNCHANGED <<hw, rtt, compLog, gpioteLog, evts, ledWrites, spaced,
                   fallsAwake, compWakes, bnd>>

\* modify(|_r, w| w.lpcomp().set_bit()): the value written is the value read with
\* the LPCOMP bit set.
ModifyClearLpcomp(reg) == reg \ {"lpcomp"}
ModifySetLpcomp(reg) == reg \cup {"lpcomp"}

\* RESETREAS is cleared by writing 1: every bit written as 1 is cleared.
WriteOneToClear(reg, written) == reg \ written

\* lines 61-64: POWER.resetreas.modify(|_r, w| w.lpcomp().set_bit())
init_clear_resetreas ==
    /\ InitGoto("clear_resetreas", "print_woke")
    /\ resetreas' = WriteOneToClear(resetreas, ModifySetLpcomp(resetreas))
    /\ UNCHANGED <<wokeRead, input, btn, led, lpcomp, gpiote, hist, bnd>>

\* line 65: rprintln!("Powered up by the comparator!")
init_print_woke ==
    /\ InitGoto("print_woke", "print_press")
    /\ rtt' = Append(rtt, "Powered up by the comparator!")
    /\ UNCHANGED <<wokeRead, hw, compLog, gpioteLog, evts, ledWrites, spaced,
                   fallsAwake, compWakes, trueReads, bnd>>

\* line 68: rprintln!("Press button 1 to shut down")
init_print_press ==
    /\ InitGoto("print_press", "late_resources")
    /\ rtt' = Append(rtt, "Press button 1 to shut down")
    /\ UNCHANGED <<wokeRead, hw, compLog, gpioteLog, evts, ledWrites, spaced,
                   fallsAwake, compWakes, trueReads, bnd>>

\* Once init has returned, interrupts are enabled.
PrimaskAfterInit == FALSE

\* lines 70-75: init returns its late resources; interrupts are enabled and idle starts
init_return ==
    /\ MainRuns /\ sys = "Booting" /\ pcMain = "late_resources"
    /\ sys' = "Awake" /\ pcMain' = "wfi" /\ primask' = PrimaskAfterInit
    /\ UNCHANGED <<pcComp, pcGpiote, wokeRead, issued, hw, hist, bnd>>

\* lines 80-82: loop { wfi() }: wfi retires once an interrupt has been taken, and
\* the loop branches back to it.
idle_loop ==
    /\ MainRuns /\ sys = "Awake" /\ pcMain = "loop"
    /\ pcMain' = "wfi"
    /\ UNCHANGED <<sys, pcComp, pcGpiote, primask, wokeRead, issued, hw, hist, bnd>>

\* The first statement of each handler.
CompEntrySkipsClear == "read"
CompEntry == "reset_events"
GpioteEntrySkipsClear == "print_off"
GpioteEntry == "reset_events"

\* line 95: #[task(binds = COMP_LPCOMP)]: the core takes the comparator interrupt
comp_dispatch ==
    /\ CompDispatchable
    /\ pcComp' = CompEntry
    /\ pcMain' = (IF pcMain = "wfi" THEN "loop" ELSE pcMain)
    /\ compLog' = <<>>
    /\ UNCHANGED <<sys, pcGpiote, primask, wokeRead, issued, hw, rtt, gpioteLog, evts,
                   ledWrites, spaced, fallsAwake, compWakes, trueReads, bnd>>

\* line 85: #[task(binds = GPIOTE)]: the core takes the GPIOTE interrupt
gpiote_dispatch ==
    /\ GpioteDispatchable
    /\ pcGpiote' = GpioteEntry
    /\ pcMain' = (IF pcMain = "wfi" THEN "loop" ELSE pcMain)
    /\ gpioteLog' = <<>>
    /\ UNCHANGED <<sys, pcComp, primask, wokeRead, issued, hw, rtt, compLog, evts,
                   ledWrites, spaced, fallsAwake, compWakes, trueReads, bnd>>

\* LpComp::reset_events: EVENTS_READY, EVENTS_DOWN, EVENTS_UP and EVENTS_CROSS are cleared.
LpCompResetEvents(l) == [l EXCEPT !.events = {}]

\* LpComp::read: TASKS_SAMPLE latches the comparison into RESULT, which is returned.
LpCompSample(l, in) == [l EXCEPT !.result = IF l.enable THEN in ELSE @]

\* GpioteChannel / Gpiote::reset_events: EVENTS_IN[0] is cleared.
GpioteResetEvents(g) == [g EXCEPT !.event = FALSE]

\* line 97: lpcomp.reset_events()
on_comp_reset_events ==
    /\ sys # "PoweredOff" /\ CompRuns /\ pcComp = "reset_events"
    /\ lpcomp' = LpCompResetEvents(lpcomp)
    /\ compLog' = Append(compLog, "clearEvent")
    /\ pcComp' = "read"
    /\ UNCHANGED <<sys, pcMain, pcGpiote, primask, wokeRead, issued, input, btn, led,
                   gpiote, resetreas, rtt, gpioteLog, evts, ledWrites, spaced,
                   fallsAwake, compWakes, trueReads, bnd>>

\* line 98: match lpcomp.read()
on_comp_read ==
    /\ sys # "PoweredOff" /\ CompRuns /\ pcComp = "read"
    /\ lpcomp' = LpCompSample(lpcomp, input)
    /\ compLog' = Append(compLog, "readResult")
    /\ pcComp' = "match"
    /\ UNCHANGED <<sys, pcMain, pcGpiote, primask, wokeRead, issued, input, btn, led,
                   gpiote, resetreas, rtt, gpioteLog, evts, ledWrites, spaced,
                   fallsAwake, compWakes, trueReads, bnd>>

\* lines 99-100: Above => led1.set_low(), Below => led1.set_high()
IndicatorLevelSwapped(r) == IF r = "Above" THEN "High" ELSE "Low"
IndicatorLevel(r) == IF r = "Above" THEN "Low" ELSE "High"

\* lines 98-101: the arm of the match chosen by the result just read
on_comp_set_led ==
    /\ sys # "PoweredOff" /\ CompRuns /\ pcComp = "match"
    /\ led' = IndicatorLevel(lpcomp.result)
    /\ ledWrites' = ledWrites + 1
    /\ compLog' = Append(compLog, "setLevel")
    /\ pcComp' = "ret"
    /\ UNCHANGED <<sys, pcMain, pcGpiote, primask, wokeRead, issued, input, btn,
                   lpcomp, gpiote, resetreas, rtt, gpioteLog, evts, spaced,
                   fallsAwake, compWakes, trueReads, bnd>>

\* line 102: on_comp returns
on_comp_return_clearing ==
    /\ sys # "PoweredOff" /\ CompRuns /\ pcComp = "ret"
    /\ pcComp' = "inactive"
    /\ lpcomp' = LpCompResetEvents(lpcomp)
    /\ UNCHANGED <<sys, pcMain, pcGpiote, primask, wokeRead, issued, input, btn, led,
                   gpiote, resetreas, hist, bnd>>
on_comp_return ==
    /\ sys # "PoweredOff" /\ CompRuns /\ pcComp = "ret"
    /\ pcComp' = "inactive"
    /\ UNCHANGED <<sys, pcMain, pcGpiote, primask, wokeRead, issued, hw, hist, bnd>>

\* line 87: gpiote.reset_events()
on_gpiote_reset_events ==
    /\ sys # "PoweredOff" /\ GpioteRuns /\ pcGpiote = "reset_events"
    /\ gpiote' = GpioteResetEvents(gpiote)
    /\ gpioteLog' = Append(gpioteLog, "clearEvent")
    /\ pcGpiote' = "print_off"
    /\ UNCHANGED <<sys, pcMain, pcComp, primask, wokeRead, issued, input, btn, led,
                   lpcomp, resetreas, rtt, compLog, evts, ledWrites, spaced,
                   fallsAwake, compWakes, trueReads, bnd>>

on_gpiote_print_off_led_off ==
    /\ sys # "PoweredOff" /\ GpioteRuns /\ pcGpiote = "print_off"
    /\ rtt' = Append(rtt, "Power OFF")
    /\ led' = "High"
    /\ pcGpiote' = "systemoff"
    /\ UNCHANGED <<sys, pcMain, pcComp, primask, wokeRead, issued, input, btn, lpcomp,
                   gpiote, resetreas, compLog, gpioteLog, evts, ledWrites, spaced,
                   fallsAwake, compWakes, trueReads, bnd>>

\* line 88: rprintln!("Power OFF")
on_gpiote_print_off ==
    /\ sys # "PoweredOff" /\ GpioteRuns /\ pcGpiote = "print_off"
    /\ rtt' = Append(rtt, "Power OFF")
    /\ pcGpiote' = "systemoff"
    /\ UNCHANGED <<sys, pcMain, pcComp, primask, wokeRead, issued, hw, compLog,
                   gpioteLog, evts, ledWrites, spaced, fallsAwake, compWakes,
                   trueReads, bnd>>

\* POWER.SYSTEMOFF <- Enter, on the power state p = [sys, issued]: the device
\* enters System OFF and the core stops.
RequestSystemOffToggles(p) == [sys |-> IF p.issued THEN "Awake" ELSE "PoweredOff", issued |-> ~p.issued]
RequestSystemOffReturns(p) == [sys |-> p.sys, issued |-> TRUE]
RequestSystemOff(p) == [sys |-> "PoweredOff", issued |-> TRUE]

PowerState == [sys |-> sys, issued |-> issued]

\* lines 89-92: power.systemoff.write(|w| w.systemoff().enter())
on_gpiote_systemoff ==
    /\ sys # "PoweredOff" /\ GpioteRuns /\ pcGpiote = "systemoff"
    /\ sys' = RequestSystemOff(PowerState).sys
    /\ issued' = RequestSystemOff(PowerState).issued
    /\ gpioteLog' = Append(gpioteLog, "requestSystemOff")
    /\ pcGpiote' = "ret"
    /\ UNCHANGED <<pcMain, pcComp, primask, wokeRead, hw, rtt, compLog, evts,
                   ledWrites, spaced, fallsAwake, compWakes, trueReads, bnd>>

Other(in) == IF in = "Above" THEN "Below" ELSE "Above"

\* The LPCOMP events a crossing to `in` raises.
CrossEvents(in) == {"cross", IF in = "Above" THEN "up" ELSE "down"}

\* The comparator input crosses the reference while the device is powered: a running
\* comparator raises its events (lines 46-47 arm and start it).
InputCross ==
    /\ sys # "PoweredOff" /\ nCross < MaxCross
    /\ input' = Other(input)
    /\ nCross' = nCross + 1
    /\ IF lpcomp.enable
       THEN /\ lpcomp' = [lpcomp EXCEPT !.events = @ \cup CrossEvents(Other(input))]
            /\ evts' = evts + 1
            /\ spaced' = (spaced /\ "cross" \notin lpcomp.events /\ pcComp = "inactive")
       ELSE UNCHANGED <<lpcomp, evts, spaced>>
    /\ UNCHANGED <<cpu, btn, led, gpiote, resetreas, rtt, compLog, gpioteLog,
                   ledWrites, fallsAwake, compWakes, trueReads, nEdges, nWakes>>

\* Whether the analog-detect setting `det` (line 45) fires on a crossing to `in`.
AnalogDetect(det, in) ==
    \/ det = "Cross"
    \/ det = "Up" /\ in = "Above"
    \/ det = "Down" /\ in = "Below"

\* The input crosses in System OFF in a direction analog-detect is not set for.
InputCrossAsleep ==
    /\ sys = "PoweredOff" /\ nCross < MaxCross
    /\ ~(lpcomp.enable /\ AnalogDetect(lpcomp.anadetect, Other(input)))
    /\ input' = Other(input)
    /\ nCross' = nCross + 1
    /\ UNCHANGED <<cpu, btn, led, lpcomp, gpiote, resetreas, hist, nEdges, nWakes>>

\* The input crosses in System OFF in the direction analog-detect is set for: the
\* device resets, the LPCOMP bit of RESETREAS is latched, the pins keep their state.
WakeByComparator ==
    /\ sys = "PoweredOff" /\ nCross < MaxCross /\ nWakes < MaxWakes
    /\ lpcomp.enable /\ AnalogDetect(lpcomp.anadetect, Other(input))
    /\ input' = Other(input)
    /\ nCross' = nCross + 1 /\ nWakes' = nWakes + 1
    /\ sys' = "Booting" /\ pcMain' = "clocks"
    /\ pcComp' = "inactive" /\ pcGpiote' = "inactive"
    /\ primask' = PrimaskAtReset /\ wokeRead' = FALSE /\ issued' = FALSE
    /\ lpcomp' = LpcompReset /\ gpiote' = GpioteReset
    /\ resetreas' = resetreas \cup {"lpcomp"}
    /\ rtt' = <<>> /\ compLog' = <<>> /\ gpioteLog' = <<>>
    /\ evts' = 0 /\ ledWrites' = 0 /\ spaced' = TRUE /\ fallsAwake' = 0
    /\ compWakes' = compWakes + 1
    /\ UNCHANGED <<btn, led, trueReads, nEdges>>

\* Whether a falling edge is an event of a channel in mode m with polarity p (lines 52-53).
FallingEdgeDetected(m, p) == m = "Event" /\ p \in {"HiToLo", "Toggle"}

\* The button pin falls (a press, or a bounce).
ButtonFall ==
    /\ btn = "High" /\ nEdges < MaxEdges
    /\ btn' = "Low"
    /\ nEdges' = nEdges + 1
    /\ IF sys # "PoweredOff" /\ FallingEdgeDetected(gpiote.mode, gpiote.polarity)
       THEN gpiote' = [gpiote EXCEPT !.event = TRUE]
       ELSE UNCHANGED gpiote
    /\ fallsAwake' = fallsAwake + (IF sys = "Awake" THEN 1 ELSE 0)
    /\ UNCHANGED <<cpu, input, led, lpcomp, resetreas, rtt, compLog, gpioteLog, evts,
                   ledWrites, spaced, compWakes, trueReads, nCross, nWakes>>

\* Whether a rising edge is an event of a channel in mode m with polarity p.
RisingEdgeDetected(m, p) == m = "Event" /\ p \in {"LoToHi", "Toggle"}

\* The button pin rises (a release, or a bounce): no event of a HiToLo channel.
ButtonRise ==
    /\ btn = "Low"
    /\ btn' = "High"
    /\ IF sys # "PoweredOff" /\ RisingEdgeDetected(gpiote.mode, gpiote.polarity)
       THEN gpiote' = [gpiote EXCEPT !.event = TRUE]
       ELSE UNCHANGED gpiote
    /\ UNCHANGED <<cpu, input, led, lpcomp, resetreas, hist, bnd>>

\* The comparator configurations configure is tried on.
Configs ==
    [refsel : {"Ref4_8Vdd", "ARef"}, aref : {"none", "AnalogReference1"},
     hyst : BOOLEAN, detect : {"Up", "Down", "Cross"}, armed : {"up", "down", "cross"}]

\* The builder calls of lines 42-46 with the configuration c.
ApplyConfig(l, c) ==
    LET l1 == Vref(l, c.refsel)
        l2 == IF c.aref = "none" THEN l1 ELSE ArefPin(l1, c.aref)
        l3 == Hysteresis(l2, c.hyst)
        l4 == SetAnalogDetect(l3, c.detect)
    IN  EnableInterrupt(l4, c.armed)

\* The configurations that differ from the program's in the reference and hysteresis.
RefConfigs ==
    [refsel : {"Ref4_8Vdd", "ARef"}, aref : {"none", "AnalogReference1"},
     hyst : BOOLEAN, detect : {"Up"}, armed : {"cross"}]

\* lines 42-46 with a configuration of CS in place of the program's.
Configure(CS) ==
    /\ \E c \in CS :
          /\ InitGoto("vref",
                      IF ConfigError(ApplyConfig(lpcomp, c))
                      THEN "panic_disable" ELSE "enable")
          /\ lpcomp' = ApplyConfig(lpcomp, c)
    /\ UNCHANGED <<wokeRead, input, btn, led, gpiote, resetreas, hist, bnd>>

configure_any == Configure(Configs)
configure_ref == Configure(RefConfigs)

\* The position of the context the core is executing, and its next position.
RunningPc ==
    IF pcComp # "inactive" THEN pcComp
    ELSE IF pcGpiote # "inactive" THEN pcGpiote ELSE pcMain
SetRunningPc(v) ==
    IF pcComp # "inactive" THEN pcComp' = v /\ UNCHANGED <<pcMain, pcGpiote>>
    ELSE IF pcGpiote # "inactive" THEN pcGpiote' = v /\ UNCHANGED <<pcMain, pcComp>>
    ELSE pcMain' = v /\ UNCHANGED <<pcComp, pcGpiote>>

\* The core executes the running context.
CoreRuns ==
    /\ sys # "PoweredOff"
    /\ pcComp # "inactive" \/ pcGpiote # "inactive" \/ MainRuns

PanicPcs == {"panic_disable", "panic_print", "panic_loop"}

\* line 106: a runtime fault in the running context enters the panic handler
panic_entry ==
    /\ CoreRuns /\ RunningPc \notin PanicPcs
    /\ SetRunningPc("panic_disable")
    /\ UNCHANGED <<sys, primask, wokeRead, issued, hw, hist, bnd>>

panic_disable_skipped ==
    /\ CoreRuns /\ RunningPc = "panic_disable"
    /\ SetRunningPc("panic_print")
    /\ UNCHANGED <<sys, primask, wokeRead, issued, hw, hist, bnd>>

\* line 107: cortex_m::interrupt::disable()
panic_disable ==
    /\ CoreRuns /\ RunningPc = "panic_disable"
    /\ primask' = TRUE
    /\ SetRunningPc("panic_print")
    /\ UNCHANGED <<sys, wokeRead, issued, hw, hist, bnd>>

\* line 108: rprintln!("{}", info)
panic_print ==
    /\ CoreRuns /\ RunningPc = "panic_print"
    /\ rtt' = Append(rtt, "panic")
    /\ SetRunningPc("panic_loop")
    /\ UNCHANGED <<sys, primask, wokeRead, issued, hw, compLog, gpioteLog, evts,
                   ledWrites, spaced, fallsAwake, compWakes, trueReads, bnd>>

\* lines 109-112: loop { compiler_fence(SeqCst) }
panic_loop ==
    /\ CoreRuns /\ RunningPc = "panic_loop"
    /\ SetRunningPc("panic_loop")
    /\ UNCHANGED <<sys, primask, wokeRead, issued, hw, hist, bnd>>

\* The steps of the program.
Cpu ==
    \/ init_clocks
    \/ init_rtt
    \/ init_gpio
    \/ init_lpcomp_new
    \/ init_vref
    \/ init_aref_pin
    \/ init_hysteresis
    \/ init_analog_detect
    \/ init_enable_interrupt
    \/ init_enable
    \/ init_gpiote_channel
    \/ init_gpiote_enable_interrupt
    \/ init_print_on
    \/ init_check_resetreas
    \/ init_clear_resetreas
    \/ init_print_woke
    \/ init_print_press
    \/ init_return
    \/ idle_loop
    \/ comp_dispatch
    \/ gpiote_dispatch
    \/ on_comp_reset_events
    \/ on_comp_read
    \/ on_comp_set_led
    \/ on_comp_return
    \/ on_gpiote_reset_events
    \/ on_gpiote_print_off
    \/ on_gpiote_systemoff

\* The steps of the environment.
Env ==
    \/ InputCross
    \/ InputCrossAsleep
    \/ WakeByComparator
    \/ ButtonFall
    \/ ButtonRise

Next == Cpu \/ Env

Spec == Init /\ [][Next]_vars

\* The core keeps executing: every program step that stays enabled is taken.
FairSpec == Spec /\ WF_vars(Cpu)

\* The panic handler.
Panic ==
    \/ panic_disable
    \/ panic_print
    \/ panic_loop

\* The program with a runtime fault possible wherever the core executes.
FaultNext == Next \/ panic_entry \/ Panic
FaultSpec == Init /\ [][FaultNext]_vars

\* Boot alone, with any comparator configuration possible in place of the program's.
BootSteps ==
    \/ init_clocks
    \/ init_rtt
    \/ init_gpio
    \/ init_lpcomp_new
    \/ init_vref
    \/ init_aref_pin
    \/ init_hysteresis
    \/ init_analog_detect
    \/ init_enable_interrupt
    \/ init_enable
    \/ init_gpiote_channel
    \/ init_gpiote_enable_interrupt
    \/ init_print_on
    \/ init_check_resetreas
    \/ init_clear_resetreas
    \/ init_print_woke
    \/ init_print_press
    \/ init_return

ConfigNext == BootSteps \/ configure_any \/ Panic
ConfigSpec == Init /\ [][ConfigNext]_vars

\* The whole program, with the reference and hysteresis of the configuration varied.
RefConfigNext == Next \/ configure_ref \/ Panic
RefConfigSpec == Init /\ [][RefConfigNext]_vars

(***************************************************************************)
(* Properties.                                                             *)
(***************************************************************************)

IsPrefix(a, b) == Len(a) <= Len(b) /\ SubSeq(b, 1, Len(a)) = a
Count(x, q) == Cardinality({i \in 1..Len(q) : q[i] = x})

CompOps == <<"clearEvent", "readResult", "setLevel">>
GpioteOps == <<"clearEvent", "requestSystemOff">>

\* C1: every run of on_comp clears the crossing event first, reads the result only
\* after the clear, writes the indicator only after the read, and then returns to
\* idle; RESULT and the LED never change in the handler before the clear.
C1_CompHandlerOrder ==
    /\ [](IsPrefix(compLog, CompOps))
    /\ [](pcComp = "ret" => compLog = CompOps)
    /\ [][/\ (pcComp # "inactive" /\ lpcomp.result' # lpcomp.result
                 => compLog = <<"clearEvent">>)
          /\ (pcComp # "inactive" /\ led' # led
                 => compLog = <<"clearEvent", "readResult">>)
          /\ (pcComp # "inactive" /\ pcComp' = "inactive"
                 => compLog = CompOps /\ pcMain' \in {"wfi", "loop"})]_vars

C1_Witness ==
    pcComp = "inactive" /\ sys = "Awake" /\ compLog = CompOps /\ led = "Low"

\* C2: when every handler run finishes before the next crossing, the indicator has
\* been written exactly once per crossing event, each run writes it exactly once,
\* and after a run the LED pin is low iff the result read was Above and high iff it
\* was Below.
C2_IndicatorFollowsResult ==
    /\ pcComp = "ret" => Count("setLevel", compLog) = 1
    /\ (ledWrites > 0 /\ pcComp \in {"inactive", "reset_events", "ret"})
          => /\ (led = "Low") <=> (lpcomp.result = "Above")
             /\ (led = "High") <=> (lpcomp.result = "Below")
    /\ (spaced /\ sys = "Awake" /\ pcComp = "inactive" /\ "cross" \notin lpcomp.events)
          => ledWrites = evts

C2_Witness ==
    /\ sys = "Awake" /\ pcComp = "inactive" /\ spaced
    /\ evts = 2 /\ ledWrites = 2 /\ led = "High" /\ lpcomp.result = "Below"

\* A crossing arrived while on_comp was running, after its clear.
Deferred == pcComp \in {"read", "match", "ret"} /\ "cross" \in lpcomp.events

LedMatchesInput == (led = "Low") <=> (input = "Above")

\* C3 as stated: a crossing that arrives while on_comp runs (after its clear) stays
\* pending until the handler returns, is never counted twice, the handler runs
\* again, and the indicator ends up equal to the mapping of the final input.
C3_DeferredAlwaysServed ==
    /\ [][Deferred /\ pcComp' # "inactive" => Deferred']_vars
    /\ [](ledWrites <= evts)
    /\ (Deferred ~> pcComp = "reset_events")
    /\ [](Deferred => <>[]LedMatchesInput)

\* C3 as amended: the same, unless on_gpiote has requested System OFF before the
\* deferred crossing is served.
C3_DeferredServedUnlessOff ==
    /\ [][Deferred /\ pcComp' # "inactive" => Deferred']_vars
    /\ [][Deferred /\ pcComp' = "inactive" => CompPending']_vars
    /\ [](ledWrites <= evts)
    /\ (Deferred ~> (pcComp = "reset_events" \/ issued))
    /\ [](Deferred => (<>issued \/ <>[]LedMatchesInput))

C3_Witness ==
    /\ pcComp = "reset_events" /\ evts = 2 /\ ledWrites = 1 /\ ~spaced
    /\ led # IndicatorLevel(input)

\* C4: every run of on_gpiote clears the edge event before it writes SYSTEMOFF, and
\* every run writes SYSTEMOFF: the handler has no path that ends without it.
C4_GpioteHandlerOrder ==
    /\ [](IsPrefix(gpioteLog, GpioteOps))
    /\ [](issued <=> gpioteLog = GpioteOps)
    /\ [](pcGpiote = "ret" => issued)
    /\ (pcGpiote \notin {"inactive", "ret"} ~> issued)

C4_Witness == issued /\ gpioteLog = GpioteOps /\ pcGpiote = "ret"

\* C5: once the button pin has fallen while Awake (any number of times), the device
\* reaches PoweredOff, and the session holds the effect of one request: SYSTEMOFF is
\* written once and "Power OFF" is printed once.
C5_ButtonPowersOff ==
    /\ (fallsAwake >= 1 ~> sys = "PoweredOff")
    /\ [](Count("Power OFF", rtt) <= 1 /\ Count("requestSystemOff", gpioteLog) <= 1)
    /\ [](sys = "PoweredOff" => issued /\ Count("Power OFF", rtt) = 1)

C5_Witness == sys = "PoweredOff" /\ fallsAwake = 2 /\ Count("Power OFF", rtt) = 1

C7_PowerOffTerminal ==
    /\ [](issued => sys = "PoweredOff")
    /\ [][issued => \/ /\ issued' /\ sys' = "PoweredOff"
                       /\ led' = led /\ lpcomp' = lpcomp /\ gpiote' = gpiote
                       /\ rtt' = rtt /\ resetreas' = resetreas
                       /\ <<pcMain, pcComp, pcGpiote>>' = <<pcMain, pcComp, pcGpiote>>
                    \/ /\ nWakes' = nWakes + 1 /\ sys' = "Booting"]_vars

C7_Witness == issued /\ CompPending /\ GpiotePending /\ btn = "High"

\* init is past the check of the wake-reason latch (lines 59-66).
LatchChecked == pcMain \in {"print_woke", "print_press", "late_resources", "wfi", "loop"}

\* C8: the boot check reads the wake-reason latch as set once per comparator-induced
\* wake and never more; from the clear on the latch reads clear until the next such
\* wake; a boot that reads it clear leaves it clear.
C8_WakeReasonRoundTrip ==
    /\ trueReads <= compWakes
    /\ LatchChecked => "lpcomp" \notin resetreas /\ trueReads = compWakes
    /\ pcMain = "clear_resetreas" => wokeRead /\ "lpcomp" \in resetreas

C8_Witness ==
    nWakes = 1 /\ sys = "Awake" /\ wokeRead /\ "lpcomp" \notin resetreas /\ trueReads = 1

\* C9: when the system is Awake the comparator runs with its crossing interrupt
\* armed, channel 0 detects falling edges with its interrupt armed, and the
\* wake-reason latch has been read and is clear; no handler runs while Booting.
C9_BootCompleteBeforeHandlers ==
    /\ sys = "Awake"
          => /\ lpcomp.enable /\ "cross" \in lpcomp.inten
             /\ gpiote.mode = "Event" /\ gpiote.polarity = "HiToLo" /\ gpiote.inten
             /\ LatchChecked /\ "lpcomp" \notin resetreas
             /\ ~primask
    /\ sys = "Booting" => pcComp = "inactive" /\ pcGpiote = "inactive"

C9_Witness ==
    /\ sys = "Booting" /\ pcMain = "late_resources" /\ wokeRead
    /\ CompPending /\ GpiotePending

\* C10: at most one of on_comp and on_gpiote is executing; a handler is entered only
\* when the other is not executing; the idle loop steps only while no interrupt is
\* pending.
C10_HandlersNeverNest ==
    /\ [](pcComp = "inactive" \/ pcGpiote = "inactive")
    /\ [][/\ (pcComp = "inactive" /\ pcComp' # "inactive" => pcGpiote = "inactive")
          /\ (pcGpiote = "inactive" /\ pcGpiote' # "inactive" => pcComp = "inactive")
          /\ (pcMain = "loop" /\ pcMain' = "wfi" => ~CompPending /\ ~GpiotePending)]_vars

C10_Witness == pcComp = "match" /\ GpiotePending /\ sys = "Awake"

\* A step of on_gpiote, of on_comp (their entry and return included), of idle.
GpioteStep == sys # "PoweredOff" /\ pcGpiote' # pcGpiote
CompStep == sys # "PoweredOff" /\ pcComp' # pcComp
IdleStep == sys = "Awake" /\ pcMain = "loop" /\ pcMain' = "wfi"

\* C11: after boot every piece of shared state is changed by one handler only:
\* on_gpiote leaves the LED and the LPCOMP registers alone, on_comp leaves the power
\* request and the channel's event alone, idle leaves all of them alone; the LED and
\* RESULT change only in on_comp and the power request is issued only in on_gpiote.
C11_OneOwnerPerResource ==
    [][/\ GpioteStep => led' = led /\ lpcomp' = lpcomp
       /\ CompStep => issued' = issued /\ sys' = sys /\ gpiote' = gpiote
       /\ IdleStep => led' = led /\ lpcomp' = lpcomp /\ issued' = issued /\ gpiote' = gpiote
       /\ (sys = "Awake" /\ led' # led) => pcComp = "match" /\ pcComp' = "ret"
       /\ (sys = "Awake" /\ lpcomp.result' # lpcomp.result)
             => pcComp = "read" /\ pcComp' = "match"
       /\ (issued' /\ ~issued) => pcGpiote = "systemoff" /\ pcGpiote' = "ret"]_vars

C11_Witness == issued /\ ledWrites >= 1 /\ led = "Low" /\ pcMain = "loop"

\* The positions of init between the calls of lines 42-46, reached only by the
\* program's own configuration.
AfterHysteresis == pcMain \in {"analog_detect", "enable_interrupt"}
AfterArefPin == pcMain \in {"hysteresis", "analog_detect", "enable_interrupt"}

CrossWithoutHysteresis(l) == "cross" \in l.inten /\ ~l.hyst

ComparatorConfig(l) == <<l.refsel, l.extrefsel, l.hyst, l.anadetect, l.inten, l.psel>>

Halted == \E pc \in {pcMain, pcComp, pcGpiote} : pc \in {"panic_print", "panic_loop"}

\* The positions of the three contexts with those of the panic handler merged.
Frozen(pc) == IF pc \in PanicPcs THEN "panic" ELSE pc

\* C14: once the panic handler has disabled interrupts it is never left: interrupts
\* stay disabled, no handler starts or advances, the LED and the comparator result
\* are not written, system-off is never requested and the system never powers off
\* nor boots again.
C14_PanicHaltsForever ==
    /\ [](Halted => primask /\ sys # "PoweredOff")
    /\ [][Halted =>
            /\ Halted' /\ primask'
            /\ <<Frozen(pcMain'), Frozen(pcComp'), Frozen(pcGpiote')>>
                 = <<Frozen(pcMain), Frozen(pcComp), Frozen(pcGpiote)>>
            /\ led' = led /\ lpcomp.result' = lpcomp.result
            /\ issued' = issued /\ sys' = sys /\ nWakes' = nWakes
            /\ compLog' = compLog /\ gpioteLog' = gpioteLog
            /\ ledWrites' = ledWrites]_vars

C14_Witness ==
    /\ pcMain = "panic_loop" /\ sys = "Awake" /\ GpiotePending /\ CompPending
    /\ ~LedMatchesInput /\ ~issued

MsgOn == "Power ON"
MsgWoke == "Powered up by the comparator!"
MsgPress == "Press button 1 to shut down"
MsgOff == "Power OFF"

\* What init has printed when it returns, given what the latch read.
BootMsgs(woke) == <<MsgOn>> \o (IF woke THEN <<MsgWoke>> ELSE <<>>) \o <<MsgPress>>

Armed ==
    /\ lpcomp.enable /\ "cross" \in lpcomp.inten
    /\ gpiote.mode = "Event" /\ gpiote.inten

InSeq(x, q) == \E i \in 1..Len(q) : q[i] = x

\* C15: per boot, "Power ON" is printed once, first, with both peripherals armed;
\* "Powered up by the comparator!" is printed iff the latch was read set, after the
\* clear; "Press button 1 to shut down" is printed after those and before Awake;
\* "Power OFF" is printed by on_gpiote after its clearEvent and before the
\* system-off request.
C15_DiagnosticEventsInOrder ==
    /\ [](IsPrefix(rtt, BootMsgs(wokeRead) \o <<MsgOff>>))
    /\ [](InSeq(MsgOn, rtt) => Armed)
    /\ [](InSeq(MsgWoke, rtt) => wokeRead /\ ~IsDetected(resetreas))
    /\ [](sys # "Booting" => IsPrefix(BootMsgs(wokeRead), rtt))
    /\ [](InSeq(MsgOff, rtt) <=> pcGpiote \in {"systemoff", "ret"})
    /\ [](InSeq(MsgOff, rtt) => gpioteLog # <<>> /\ gpioteLog[1] = "clearEvent")
    /\ [](issued => InSeq(MsgOff, rtt))
    /\ [][rtt' # rtt /\ rtt' # <<>> =>
            \/ sys = "Booting" /\ sys' = "Booting" /\ pcMain' # pcMain
            \/ /\ pcGpiote = "print_off" /\ pcGpiote' = "systemoff"
               /\ gpioteLog = <<"clearEvent">> /\ ~issued /\ sys' = "Awake"]_vars

C15_Witness ==
    /\ sys = "PoweredOff" /\ rtt = BootMsgs(TRUE) \o <<MsgOff>>
    /\ nWakes = 1 /\ issued

\* No handler runs and no comparator event waits to be served.
IdleNoEvent ==
    /\ sys = "Awake" /\ pcMain = "wfi"
    /\ pcComp = "inactive" /\ pcGpiote = "inactive" /\ ~CompPending

\* C16: whenever the system is Awake and idle, with no handler running and no
\* comparator event pending, the LED is on exactly if the input is above the
\* reference, from the moment Awake is entered.
C16_IndicatorReflectsResultWhenIdle == IdleNoEvent => LedMatchesInput

\* C18: the clear of the comparator bit at boot leaves every other bit of RESETREAS
\* as it was: only the comparator bit changes.
C18_ClearChangesOnlyLpcompBit ==
    [][(pcMain = "clear_resetreas" /\ pcMain' = "print_woke")
          => resetreas' = resetreas \ {"lpcomp"}]_vars

\* C17: the device leaves System OFF only by an upward crossing of the comparator
\* input, into a new boot with the wake-reason latch set, which that boot reads as
\* set; every upward crossing in System OFF wakes it and no downward crossing does;
\* analog detect is armed for Up while the interrupt is armed for Cross.
C17_WokenOnlyByUpwardCrossing ==
    /\ [][sys = "PoweredOff" /\ sys' # "PoweredOff"
            => /\ input = "Below" /\ input' = "Above"
               /\ sys' = "Booting" /\ pcMain' = "clocks"
               /\ IsDetected(resetreas')]_vars
    /\ [][sys = "PoweredOff" /\ input' # input
            => (sys' = "Booting" <=> input' = "Above")]_vars
    /\ [](sys # "Booting" => lpcomp.anadetect = "Up" /\ "cross" \in lpcomp.inten)
    /\ [](LatchChecked /\ nWakes >= 1 => wokeRead)

C17_Witness ==
    /\ sys = "Booting" /\ pcMain = "print_woke" /\ wokeRead
    /\ nWakes = 1 /\ nCross >= 2 /\ input = "Above"

\* C19 as stated: in every state where on_comp has not run in this session the LED
\* is off.
C19_InactiveUntilFirstHandlerRun == ledWrites = 0 => led # "Low"

\* init has executed line 36 in this session.
LedConfigured == pcMain \notin {"clocks", "rtt_init", "gpio"}

\* C19: from the moment init has configured the LED pin (line 36) until on_comp
\* first writes it in this session the pin is high; the LED pin is written only by
\* line 36 of init, which drives it high, and by the match of on_comp.
C19_InactiveFromInitUntilFirstHandlerRun ==
    /\ [](LedConfigured /\ ledWrites = 0 => led = "High")
    /\ [][led' # led =>
            \/ pcMain = "gpio" /\ pcMain' = "lpcomp_new" /\ led' = "High"
            \/ pcComp = "match" /\ pcComp' = "ret" /\ ledWrites' = ledWrites + 1]_vars

C19_Witness ==
    /\ sys = "Booting" /\ pcMain = "lpcomp_new" /\ nWakes = 1
    /\ led = "High" /\ ledWrites = 0 /\ nCross = MaxCross
====
